---- MODULE Spec2Model ----
(***************************************************************************)
(* Model of backend/data_loader.py: the interaction-text parser            *)
(* (parse_interactions) and the load entry point (load_drugbank_data).     *)
(*                                                                         *)
(* Text is a sequence of characters, each character a one-character        *)
(* string.  The one exception is the em dash U+2014, written "emdash".     *)
(* Python's None and pandas' NaN are the one-element sequences None and    *)
(* NaN, which no character sequence equals.                                *)
(***************************************************************************)
EXTENDS Integers, Sequences, FiniteSets, TLC

\* ------------------------------------------------------------------ bounds
MaxPieces == 4
MaxRows == 2

\* -------------------------------------------------------- character classes
Digits == {"0", "1", "2", "3", "4", "5", "6", "7", "8", "9"}

Letters ==
  {"a", "b", "c", "d", "e", "f", "g", "h", "i", "j", "k", "l", "m",
   "n", "o", "p", "q", "r", "s", "t", "u", "v", "w", "x", "y", "z",
   "A", "B", "C", "D", "E", "F", "G", "H", "I", "J", "K", "L", "M",
   "N", "O", "P", "Q", "R", "S", "T", "U", "V", "W", "X", "Y", "Z"}

\* \s of the re module, and what str.strip() removes
Whitespace == {" ", "\t", "\n", "\r", "\f"}

IsDigit(c) == c \in Digits

\* \w of the re module
IsWord(c) == c \in Digits \cup Letters \cup {"_"}

IsSpace(c) == c \in Whitespace

None == <<"None">>

NaN == <<"NaN">>

\* ------------------------------------------------------------ string helpers
Tail_(s, p) == SubSeq(s, p, Len(s))

\* the least element of a non-empty set of integers
Least(S) == CHOOSE x \in S : \A y \in S : x <= y

Greatest(S) == CHOOSE x \in S : \A y \in S : y <= x

\* str.strip()
Strip(s) ==
  LET keep == {p \in 1..Len(s) : ~IsSpace(s[p])}
  IN  IF keep = {} THEN <<>> ELSE SubSeq(s, Least(keep), Greatest(keep))

\* `sub in s` for strings: the positions where sub occurs in s
Occurrences(sub, s) ==
  {p \in 1..(Len(s) - Len(sub) + 1) : SubSeq(s, p, p + Len(sub) - 1) = sub}

Contains(sub, s) == Occurrences(sub, s) # {}

\* ------------------------------------------------------- identifier matcher
\* id_pattern = re.compile(r'\bDB\d+\b', flags=re.IGNORECASE), tried at
\* position p: the index of the match's last character, or 0 for no match.
\* \d+ is greedy and a shorter run of digits never ends at a word boundary,
\* so the match ends with the maximal run of digits.
id_pattern(s, p) ==
  IF /\ p + 2 <= Len(s)
     /\ s[p] \in {"D", "d"}
     /\ s[p + 1] \in {"B", "b"}
     /\ IsDigit(s[p + 2])
     /\ (p = 1 \/ ~IsWord(s[p - 1]))
  THEN LET e == Greatest({q \in (p + 2)..Len(s) :
                            \A t \in (p + 2)..q : IsDigit(s[t])})
       IN  IF e = Len(s) \/ ~IsWord(s[e + 1]) THEN e ELSE 0
  ELSE 0

\* id_pattern.findall(s), scanning from position p
RECURSIVE FindFrom(_, _)
FindFrom(s, p) ==
  IF p > Len(s) THEN <<>>
  ELSE LET e == id_pattern(s, p)
       IN  IF e # 0 THEN <<SubSeq(s, p, e)>> \o FindFrom(s, e + 1)
           ELSE FindFrom(s, p + 1)

findall(s) == FindFrom(s, 1)

\* id_pattern.search(s): the first match as a one-element sequence, or <<>>
search(s) == LET all == findall(s) IN IF all = <<>> THEN <<>> ELSE <<all[1]>>

\* ------------------------------------------------------------------ chunker
\* re.split on one-character separators standing at the positions `cuts`
RECURSIVE SplitAt(_, _, _)
SplitAt(s, cuts, from) ==
  LET rest == {p \in cuts : p >= from}
  IN  IF rest = {} THEN <<SubSeq(s, from, Len(s))>>
      ELSE LET p == Least(rest)
           IN  <<SubSeq(s, from, p - 1)>> \o SplitAt(s, cuts, p + 1)

\* the separators of re.split(r'[;\n]|\|', text)
HardSeparators == {";", "\n", "|"}

\* the lookahead (?=\s*DB\d+) at the character after position p: optional
\* whitespace, then the letters DB as written (no IGNORECASE), then a digit
LookaheadDB(s, p) ==
  \E j \in (p + 1)..(Len(s) - 2) :
    /\ \A t \in (p + 1)..(j - 1) : IsSpace(s[t])
    /\ s[j] = "D"
    /\ s[j + 1] = "B"
    /\ IsDigit(s[j + 2])

\* re.split(r',(?=\s*DB\d+)', text)
SplitComma(s) ==
  SplitAt(s, {p \in 1..Len(s) : s[p] = "," /\ LookaheadDB(s, p)}, 1)

SplitHard(s) == SplitAt(s, {p \in 1..Len(s) : s[p] \in HardSeparators}, 1)

\* the chunks of one row's text, before they are stripped
Chunker(s) ==
  LET hard == SplitHard(s)
  IN  IF Len(hard) = 1 THEN SplitComma(s) ELSE hard

\* ------------------------------------------------------------------ records
Record(drug_id, interacting, effect) ==
  [drugbank_id |-> drug_id, interacting_drugbank_id |-> interacting,
   effect |-> effect]

\* one record per identifier of ids, all with the same effect
RecordsOf(drug_id, ids, effect) ==
  [j \in 1..Len(ids) |-> Record(drug_id, ids[j], effect)]

\* --------------------------------------------------------------- colon form
\* re.split(r'[,&/]|\s+', left): a separator is one of , & / or a maximal
\* run of whitespace
RECURSIVE SplitIds(_)
SplitIds(s) ==
  LET seps == {p \in 1..Len(s) : s[p] \in {",", "&", "/"} \/ IsSpace(s[p])}
  IN  IF seps = {} THEN <<s>>
      ELSE LET p == Least(seps)
               e == IF s[p] \in {",", "&", "/"} THEN p
                    ELSE Greatest({q \in p..Len(s) :
                                     \A t \in p..q : IsSpace(s[t])})
           IN  <<SubSeq(s, 1, p - 1)>> \o SplitIds(Tail_(s, e + 1))

\* the object id of a left token: the identifier found in it, else the token
Interacting(iid) ==
  LET match == search(iid)
  IN  IF match # <<>> THEN match[1] ELSE iid

ColonRecords(drug_id, chunk) ==
  LET p == Least(Occurrences(<<":">>, chunk))
      left == SubSeq(chunk, 1, p - 1)
      right == Tail_(chunk, p + 1)
      effect == Strip(right)
      ids == SplitIds(left)
      stripped == [j \in 1..Len(ids) |-> Strip(ids[j])]
      kept == SelectSeq(stripped, LAMBDA iid : iid # <<>>)
  IN  [j \in 1..Len(kept) |-> Record(drug_id, Interacting(kept[j]), effect)]

\* ------------------------------------------------------- parenthetical form
\* the pattern \(([^)]+)\) tried at position p: the index of the closing
\* parenthesis, or 0. [^)]+ takes the maximal run of characters other than )
ParenAt(s, p) ==
  IF s[p] = "(" /\ p + 1 <= Len(s) /\ s[p + 1] # ")"
  THEN LET e == Greatest({q \in (p + 1)..Len(s) :
                            \A t \in (p + 1)..q : s[t] # ")"})
       IN  IF e < Len(s) THEN e + 1 ELSE 0
  ELSE 0

\* re.search(r'\(([^)]+)\)', chunk): paren.start(), or 0 for no match
ParenStart(chunk) ==
  LET at == {p \in 1..Len(chunk) : ParenAt(chunk, p) # 0}
  IN  IF at = {} THEN 0 ELSE Least(at)

\* ParenRecords taking the identifiers from the whole chunk
ParenRecords_WholeChunk(drug_id, chunk) ==
  LET p == ParenStart(chunk)
      effect == Strip(SubSeq(chunk, p + 1, ParenAt(chunk, p) - 1))
  IN  RecordsOf(drug_id, findall(chunk), effect)

ParenRecords(drug_id, chunk) ==
  LET p == ParenStart(chunk)
      effect == Strip(SubSeq(chunk, p + 1, ParenAt(chunk, p) - 1))
      ids_part == SubSeq(chunk, 1, p - 1)
  IN  RecordsOf(drug_id, findall(ids_part), effect)

\* ---------------------------------------------------------------- dash form
Dashes == {"-", "emdash"}

\* ' - ' in chunk or ' — ' in chunk
DashGuard(chunk) ==
  Contains(<<" ", "-", " ">>, chunk) \/ Contains(<<" ", "emdash", " ">>, chunk)

\* re.split(r'\s[-—]\s', chunk, maxsplit=1)
DashParts(chunk) ==
  LET at == {p \in 1..(Len(chunk) - 2) :
               /\ IsSpace(chunk[p])
               /\ chunk[p + 1] \in Dashes
               /\ IsSpace(chunk[p + 2])}
  IN  IF at = {} THEN <<chunk>>
      ELSE LET p == Least(at)
           IN  <<SubSeq(chunk, 1, p - 1), Tail_(chunk, p + 3)>>

DashRecords(drug_id, chunk) ==
  LET parts == DashParts(chunk)
  IN  RecordsOf(drug_id, findall(parts[1]), Strip(parts[2]))

\* ----------------------------------------------------------------- fallback
FallbackRecords(drug_id, chunk) == RecordsOf(drug_id, findall(chunk), None)

\* ------------------------------------------------------------------ cascade
\* Strategy with the parenthetical form tried before the colon form
Strategy_ParenFirst(chunk) ==
  IF ParenStart(chunk) # 0 THEN "paren"
  ELSE IF Contains(<<":">>, chunk) THEN "colon"
  ELSE IF DashGuard(chunk) /\ Len(DashParts(chunk)) = 2 THEN "dash"
  ELSE "fallback"

\* the if/continue chain applied to one stripped, non-empty chunk: the branch
\* that handles the chunk
Strategy(chunk) ==
  IF Contains(<<":">>, chunk) THEN "colon"
  ELSE IF ParenStart(chunk) # 0 THEN "paren"
  ELSE IF DashGuard(chunk) /\ Len(DashParts(chunk)) = 2 THEN "dash"
  ELSE "fallback"

Cascade(drug_id, chunk) ==
  CASE Strategy(chunk) = "colon" -> ColonRecords(drug_id, chunk)
    [] Strategy(chunk) = "paren" -> ParenRecords(drug_id, chunk)
    [] Strategy(chunk) = "dash" -> DashRecords(drug_id, chunk)
    [] OTHER -> FallbackRecords(drug_id, chunk)

\* the records of one row: the loop over the chunks
RECURSIVE ParseChunks(_, _, _)
ParseChunks(drug_id, cs, j) ==
  IF j > Len(cs) THEN <<>>
  ELSE LET chunk == Strip(cs[j])
       IN  (IF chunk = <<>> THEN <<>> ELSE Cascade(drug_id, chunk))
             \o ParseChunks(drug_id, cs, j + 1)

ParseText(drug_id, s) == ParseChunks(drug_id, Chunker(s), 1)

\* =================================================================== state
VARIABLES
  \* one row's text under the parser, followed chunk by chunk
  text,          \* str(raw) of the row
  chunks,        \* the chunks of text
  k,             \* the index in chunks of the chunk the loop is at
  parsed,        \* the records appended for this row so far
  step,          \* the chunk handled last, the branch taken, what it appended
  ppc,           \* "split", "chunk" or "done"
  \* a load
  data_file,     \* the rows of the data file of the current load
  db,            \* the SQLite database
  pc,            \* where the load is
  df,            \* the rows parse_interactions read
  i,             \* the index in df of the row the loop is at
  interactions,  \* the list parse_interactions appends to
  trace,         \* what the current parse_interactions did, in order
  status,        \* how the current load has gone
  before         \* whether the current load repeats the one before it

parseVars == <<text, chunks, k, parsed, step, ppc>>

loadVars == <<data_file, db, pc, df, i, interactions, trace, status, before>>

vars == <<parseVars, loadVars>>

\* ---------------------------------------------------------- input alphabets
\* the fragments a row's text is put together from
Pieces ==
  << <<"D", "B", "1">>, <<"d", "b", "2">>, <<"x">>, <<" ">>, <<",">>,
     <<";">>, <<":">>, <<"(">>, <<"(", "x", ")">>, <<" ", "-", " ">>,
     <<"\t", "-", "\t">> >>

RECURSIVE Join(_, _)
Join(ps, j) == IF j > Len(ps) THEN <<>> ELSE Pieces[ps[j]] \o Join(ps, j + 1)

Texts ==
  {Join(ps, 1) : ps \in UNION {[1..n -> 1..Len(Pieces)] : n \in 0..MaxPieces}}

\* the subject of the row under the parser (subjects are numbered)
Subject == 1

\* a table of the database: absent, or the rows it holds
NoTable == [exists |-> FALSE, rows |-> <<>>]

Table(rows) == [exists |-> TRUE, rows |-> rows]

\* `before` when the load does not repeat the load before it
NoRepeat == [repeat |-> FALSE, relation |-> NoTable]

NoStep == [chunk |-> <<>>, strategy |-> "none", records |-> <<>>]

\* the load's variables while one row's text is followed
LoadIdle ==
  /\ data_file = <<>>
  /\ db = [drugbank |-> NoTable, drug_interactions |-> NoTable,
           index |-> FALSE]
  /\ pc = "idle"
  /\ df = <<>>
  /\ i = 0
  /\ interactions = <<>>
  /\ trace = <<>>
  /\ status = [warned |-> FALSE, write_failed |-> FALSE, result |-> "none"]
  /\ before = NoRepeat

\* ========================================================= one row's parsing
InitParse ==
  /\ text \in Texts
  /\ chunks = <<>>
  /\ k = 0
  /\ parsed = <<>>
  /\ step = NoStep
  /\ ppc = "split"
  /\ LoadIdle

\* chunks = re.split(...), and the comma split when that gave one chunk
SplitText ==
  /\ ppc = "split"
  /\ chunks' = Chunker(text)
  /\ k' = 1
  /\ ppc' = "chunk"
  /\ UNCHANGED <<text, parsed, step, loadVars>>

\* the chunk the loop is at, stripped
Chunk == Strip(chunks[k])

AtChunk == ppc = "chunk" /\ k <= Len(chunks)

\* if not chunk: continue
EmptyChunk ==
  /\ AtChunk
  /\ Chunk = <<>>
  /\ k' = k + 1
  /\ step' = [chunk |-> <<>>, strategy |-> "empty", records |-> <<>>]
  /\ UNCHANGED <<text, chunks, parsed, ppc, loadVars>>

\* the chunk is not empty and the if/continue chain reaches branch `which`
Reaches(which) ==
  /\ AtChunk
  /\ Chunk # <<>>
  /\ Strategy(Chunk) = which

\* interactions.append(...) for each record of the branch, then the next chunk
Emit(which, records) ==
  /\ parsed' = parsed \o records
  /\ step' = [chunk |-> Chunk, strategy |-> which, records |-> records]
  /\ k' = k + 1
  /\ UNCHANGED <<text, chunks, ppc, loadVars>>

\* if ':' in chunk: ...; continue
ColonForm ==
  /\ Reaches("colon")
  /\ Emit("colon", ColonRecords(Subject, Chunk))

\* if paren: ...; continue
ParenForm ==
  /\ Reaches("paren")
  /\ Emit("paren", ParenRecords(Subject, Chunk))

\* if ' - ' in chunk or ' — ' in chunk: if len(parts) == 2: ...; continue
DashForm ==
  /\ Reaches("dash")
  /\ Emit("dash", DashRecords(Subject, Chunk))

\* the last resort: the identifiers of the chunk with no effect
Fallback ==
  /\ Reaches("fallback")
  /\ Emit("fallback", FallbackRecords(Subject, Chunk))

\* the loop over the chunks ends
RowDone ==
  /\ ppc = "chunk"
  /\ k > Len(chunks)
  /\ ppc' = "done"
  /\ UNCHANGED <<text, chunks, k, parsed, step, loadVars>>

NextParse ==
  \/ SplitText
  \/ EmptyChunk
  \/ ColonForm
  \/ ParenForm
  \/ DashForm
  \/ Fallback
  \/ RowDone

SpecParse == InitParse /\ [][NextParse]_vars

\* ==================================================================== a load
\* the raw texts a row of the data file holds
RowTexts ==
  { NaN,
    <<" ">>,
    <<"x">>,
    <<"D", "B", "1", ":", "x", ";", "d", "b", "2">> }

\* the data files: up to MaxRows rows, row j the drug numbered j
DataFiles ==
  {[j \in 1..n |-> [drugbank_id |-> j, raw |-> raws[j]]] :
     n \in 0..MaxRows, raws \in [1..MaxRows -> RowTexts]}

\* a value as SQLite stores it and read_sql returns it: NaN becomes NULL
SqlValue(raw) == IF raw = NaN THEN None ELSE raw

SqlRows(rows) ==
  [j \in 1..Len(rows) |->
     [drugbank_id |-> rows[j].drugbank_id, raw |-> SqlValue(rows[j].raw)]]

\* pd.isna(raw) or not str(raw).strip()
IsBlank(raw) == raw \in {NaN, None} \/ Strip(raw) = <<>>

\* df.to_sql('drugbank', conn, if_exists='replace'): what the table holds
\* after the write, given what it held before
WriteDrugbank(old, new) == Table(new)

\* WriteInteractions appending to the stored relation
WriteInteractions_Append(old, new) == Table(old.rows \o new)

\* interactions_df.to_sql('drug_interactions', conn, if_exists='replace')
WriteInteractions(old, new) == Table(new)

\* what a table may hold after a write that failed: the table is dropped
\* before it is written again
AfterFailedWrite(old) == {old, NoTable}

\* LoopDone ending the loop one row early
LoopDone_Early(idx, rows) == idx >= Len(rows)

\* the for loop over df has ended
LoopDone(idx, rows) == idx > Len(rows)

\* AfterBlankRow as `break`: the loop ends at a blank row
AfterBlankRow_Break(idx, rows) == Len(rows) + 1

\* `continue` on a blank row: the index of the row the loop goes to next
AfterBlankRow(idx, rows) == idx + 1

\* AfterParseFailure with the exception left to propagate to the caller
AfterParseFailure_Raise == "raised"

\* load_drugbank_data's `except Exception` around parse_interactions: the
\* warning is printed and the load goes on to return the connection
AfterParseFailure == "return"

NoStatus == [warned |-> FALSE, write_failed |-> FALSE, result |-> "none"]

\* the load returned its connection and no write of the relation failed
Clean == status.result = "returned" /\ ~status.write_failed

ParseIdle ==
  /\ text = <<>>
  /\ chunks = <<>>
  /\ k = 0
  /\ parsed = <<>>
  /\ step = NoStep
  /\ ppc = "idle"

Init ==
  /\ ParseIdle
  /\ LoadIdle

\* load_drugbank_data up to the call of parse_interactions, for a data file
\* that is found and a drugbank table that is written (the indexes on that
\* table are best effort and change nothing modelled here). `before` keeps
\* the stored relation when the load repeats a clean load of the same file.
StartLoad(rows) ==
  /\ pc \in {"idle", "returned", "raised"}
  /\ data_file' = rows
  /\ before' = IF rows = data_file /\ Clean
               THEN [repeat |-> TRUE, relation |-> db.drug_interactions]
               ELSE NoRepeat
  /\ db' = [db EXCEPT !.drugbank = WriteDrugbank(@, SqlRows(rows))]
  /\ df' = <<>>
  /\ i' = 0
  /\ interactions' = <<>>
  /\ trace' = <<>>
  /\ status' = NoStatus
  /\ pc' = "parse"
  /\ UNCHANGED parseVars

\* df = pd.read_sql(...)
ReadRows ==
  /\ pc = "parse"
  /\ db.drugbank.exists
  /\ df' = db.drugbank.rows
  /\ i' = 1
  /\ trace' = Append(trace, "read")
  /\ pc' = "rows"
  /\ UNCHANGED <<parseVars, data_file, db, interactions, status, before>>

\* a row whose raw text is absent or blank
SkipRow ==
  /\ pc = "rows"
  /\ ~LoopDone(i, df)
  /\ IsBlank(df[i].raw)
  /\ i' = AfterBlankRow(i, df)
  /\ trace' = Append(trace, "row")
  /\ UNCHANGED <<parseVars, data_file, db, pc, df, interactions, status, before>>

\* a row with text: its chunks, each through the cascade
ParseRow ==
  /\ pc = "rows"
  /\ ~LoopDone(i, df)
  /\ ~IsBlank(df[i].raw)
  /\ interactions' = interactions \o ParseText(df[i].drugbank_id, df[i].raw)
  /\ i' = i + 1
  /\ trace' = Append(trace, "row")
  /\ UNCHANGED <<parseVars, data_file, db, pc, df, status, before>>

\* if not interactions: print(...); return
NoInteractions ==
  /\ pc = "rows"
  /\ LoopDone(i, df)
  /\ interactions = <<>>
  /\ pc' = "return"
  /\ UNCHANGED <<parseVars, data_file, db, df, i, interactions, trace, status,
                 before>>

\* interactions_df.to_sql('drug_interactions', conn, if_exists='replace')
WriteRelation(ok) ==
  /\ pc = "rows"
  /\ LoopDone(i, df)
  /\ interactions # <<>>
  /\ trace' = Append(trace, "write")
  /\ IF ok
     THEN /\ db' = [db EXCEPT
                      !.drug_interactions = WriteInteractions(@, interactions),
                      !.index = FALSE]
          /\ pc' = "index"
          /\ UNCHANGED status
     ELSE /\ \E left \in AfterFailedWrite(db.drug_interactions) :
               db' = [db EXCEPT !.drug_interactions = left,
                                !.index = (left.exists /\ @)]
          /\ pc' = AfterParseFailure
          /\ status' = [status EXCEPT
                          !.write_failed = TRUE,
                          !.warned = (AfterParseFailure = "return"),
                          !.result = IF AfterParseFailure = "raised"
                                     THEN "raised" ELSE @]
  /\ UNCHANGED <<parseVars, data_file, df, i, interactions, before>>

\* CREATE INDEX IF NOT EXISTS idx_interact_id, best effort
CreateIndex(ok) ==
  /\ pc = "index"
  /\ db' = [db EXCEPT !.index = ok]
  /\ trace' = Append(trace, "index")
  /\ pc' = "return"
  /\ UNCHANGED <<parseVars, data_file, df, i, interactions, status, before>>

\* print(...); return conn
Return ==
  /\ pc = "return"
  /\ status' = [status EXCEPT !.result = "returned"]
  /\ pc' = "returned"
  /\ UNCHANGED <<parseVars, data_file, db, df, i, interactions, trace, before>>

Next ==
  \/ \E rows \in DataFiles : StartLoad(rows)
  \/ ReadRows
  \/ SkipRow
  \/ ParseRow
  \/ NoInteractions
  \/ WriteRelation(TRUE)
  \/ WriteRelation(FALSE)
  \/ CreateIndex(TRUE)
  \/ CreateIndex(FALSE)
  \/ Return

Spec == Init /\ [][Next]_vars

\* ================================================ claims on one row's parsing
\* a chunk has gone through the cascade
Handled == step.strategy \in {"colon", "paren", "dash", "fallback"}

\* the identifier lexical pattern, of a whole token: DB in either case, then
\* digits only
IsIdentifier(t) ==
  /\ Len(t) >= 3
  /\ t[1] \in {"D", "d"}
  /\ t[2] \in {"B", "b"}
  /\ \A j \in 3..Len(t) : IsDigit(t[j])

\* an identifier occurs somewhere in s
HasIdentifier(s) == \E p \in 1..Len(s) : id_pattern(s, p) # 0

\* C1: the object id of every record the parser emits satisfies the
\* identifier lexical pattern, whichever strategy produced it.
C1_ObjectIdIsIdentifier ==
  \A j \in 1..Len(parsed) : IsIdentifier(parsed[j].interacting_drugbank_id)

\* C2: a text in which the identifier pattern matches nowhere yields zero
\* records.
C2_NoIdentifierNoRecord ==
  (ppc = "done" /\ ~HasIdentifier(text)) => parsed = <<>>

\* the chunker as C6 states it: the comma split is at every comma followed
\* by optional whitespace and a match of the matcher's identifier pattern
ClaimedCommaCuts(s) ==
  {p \in 1..Len(s) :
     /\ s[p] = ","
     /\ \E j \in (p + 1)..Len(s) :
          /\ \A t \in (p + 1)..(j - 1) : IsSpace(s[t])
          /\ id_pattern(s, j) # 0}

ClaimedChunks(s) ==
  LET hard == {p \in 1..Len(s) : s[p] \in {";", "\n", "|"}}
  IN  IF hard = {} THEN SplitAt(s, ClaimedCommaCuts(s), 1)
      ELSE SplitAt(s, hard, 1)

\* the chunks that reach the cascade: stripped, the empty ones dropped
Trimmed(cs) ==
  SelectSeq([j \in 1..Len(cs) |-> Strip(cs[j])], LAMBDA c : c # <<>>)

\* C6: the chunks passed to the cascade are those of the hard split, or,
\* when that gives one chunk, of the split at every comma followed by
\* optional whitespace and an identifier token, trimmed and non-empty.
C6_ChunksAsClaimed ==
  ppc \in {"chunk", "done"} => Trimmed(chunks) = Trimmed(ClaimedChunks(text))

\* the first colon of a chunk, or 0
FirstColon(c) ==
  IF \E p \in 1..Len(c) : c[p] = ":"
  THEN Least({p \in 1..Len(c) : c[p] = ":"}) ELSE 0

\* the parenthesized groups of a chunk with a non-empty interior, as pairs
\* of the positions of ( and the first ) after it
Groups(c) ==
  {g \in (1..Len(c)) \X (1..Len(c)) :
     /\ c[g[1]] = "("
     /\ c[g[2]] = ")"
     /\ g[2] > g[1] + 1
     /\ \A t \in (g[1] + 1)..(g[2] - 1) : c[t] # ")"}

FirstGroup(c) == CHOOSE g \in Groups(c) : \A h \in Groups(c) : g[1] <= h[1]

\* the positions of a ' - ' or ' — ' in a chunk
SpacedDashes(c) ==
  Occurrences(<<" ", "-", " ">>, c) \cup Occurrences(<<" ", "emdash", " ">>, c)

\* the positions of a dash between two whitespace characters
WhiteDashes(c) ==
  {p \in 1..(Len(c) - 2) :
     IsSpace(c[p]) /\ c[p + 1] \in {"-", "emdash"} /\ IsSpace(c[p + 2])}

\* the strategy C7 gives a chunk: the first in the order colon,
\* parenthetical, dash, fallback whose shape the chunk has
ClaimedStrategy(c) ==
  CASE FirstColon(c) # 0 -> "colon"
    [] FirstColon(c) = 0 /\ Groups(c) # {} -> "paren"
    [] FirstColon(c) = 0 /\ Groups(c) = {} /\ SpacedDashes(c) # {} -> "dash"
    [] OTHER -> "fallback"

\* the records C7 gives a chunk, the dash form splitting at position d
ClaimedRecords(c, d) ==
  CASE ClaimedStrategy(c) = "colon" ->
         ColonRecords(Subject, c)
    [] ClaimedStrategy(c) = "paren" ->
         LET g == FirstGroup(c)
         IN  RecordsOf(Subject, findall(SubSeq(c, 1, g[1] - 1)),
                       Strip(SubSeq(c, g[1] + 1, g[2] - 1)))
    [] ClaimedStrategy(c) = "dash" ->
         RecordsOf(Subject, findall(SubSeq(c, 1, d - 1)),
                   Strip(Tail_(c, d + 3)))
    [] OTHER ->
         RecordsOf(Subject, findall(c), None)

\* C7 as stated: every chunk is handled by the first strategy, in the order
\* colon, parenthetical, dash, fallback, whose shape it has, and the records
\* are that strategy's alone; the dash form splits at the ' - ' or ' — '.
C7_CascadeAsClaimed ==
  Handled =>
    /\ step.strategy = ClaimedStrategy(step.chunk)
    /\ step.records =
         ClaimedRecords(step.chunk,
                        IF SpacedDashes(step.chunk) = {} THEN 0
                        ELSE Least(SpacedDashes(step.chunk)))

\* C7 amended: as C7, but the dash form splits at the first dash that stands
\* between two whitespace characters of any kind, which may come before the
\* first ' - ' or ' — '.
C7_CascadeFirstMatch ==
  Handled =>
    /\ step.strategy = ClaimedStrategy(step.chunk)
    /\ step.records =
         ClaimedRecords(step.chunk,
                        IF WhiteDashes(step.chunk) = {} THEN 0
                        ELSE Least(WhiteDashes(step.chunk)))
    /\ step.strategy = "colon" =>
         \A j \in 1..Len(step.records) :
           step.records[j].effect =
             Strip(Tail_(step.chunk, FirstColon(step.chunk) + 1))

\* a chunk with a parenthesized group and a ' - ' went to the parenthetical
\* form and gave a record
C7_Witness ==
  /\ step.strategy = "paren"
  /\ SpacedDashes(step.chunk) # {}
  /\ step.records # <<>>

ReadPartGives(c) ==
  CASE ClaimedStrategy(c) = "colon" ->
         \E p \in 1..(FirstColon(c) - 1) :
           ~IsSpace(c[p]) /\ c[p] \notin {",", "&", "/"}
    [] ClaimedStrategy(c) = "paren" ->
         HasIdentifier(SubSeq(c, 1, FirstGroup(c)[1] - 1))
    [] ClaimedStrategy(c) = "dash" ->
         HasIdentifier(SubSeq(c, 1, Least(WhiteDashes(c)) - 1))
    [] OTHER ->
         HasIdentifier(c)

C3_StoredIsLatestRun ==
  (pc = "returned" /\ ~status.write_failed) =>
    db.drug_interactions.rows = interactions

\* C4 as stated: a load in which the write of the relation failed does not
\* return normally.
C4_WriteFailureIsFatal == ~(status.write_failed /\ status.result = "returned")

\* C4 amended: when the write of the relation fails, parse_interactions ends
\* there (no index is built), load_drugbank_data prints its warning and goes
\* on to return the connection; the failure never reaches the caller.
C4_WriteFailureIsWarned ==
  status.write_failed =>
    /\ status.warned
    /\ status.result # "raised"
    /\ pc \in {"return", "returned"}
    /\ trace[Len(trace)] = "write"

\* a load returned its connection after the write of the relation failed
C4_Witness == status.write_failed /\ status.result = "returned"

\* C5: a load that repeats a clean load of the same data file, and is clean
\* itself, leaves the stored relation as the first load left it.
C5_RepeatLeavesRelation ==
  (pc = "returned" /\ before.repeat /\ Clean) =>
    db.drug_interactions = before.relation

\* a repeated load has completed and the relation holds two records or more
C5_Witness ==
  /\ pc = "returned"
  /\ before.repeat
  /\ Clean
  /\ Len(db.drug_interactions.rows) >= 2
  /\ Len(interactions) >= 2

\* the rows of rs whose raw text is neither absent nor blank
NonBlank(rs) == SelectSeq(rs, LAMBDA r : ~IsBlank(r.raw))

\* the records of the rows rs, each row parsed, from row j on
RECURSIVE RecordsOfRows(_, _)
RecordsOfRows(rs, j) ==
  IF j > Len(rs) THEN <<>>
  ELSE ParseText(rs[j].drugbank_id, rs[j].raw) \o RecordsOfRows(rs, j + 1)

\* the rows the loop has gone past
RowsPassed == SubSeq(df, 1, IF i - 1 <= Len(df) THEN i - 1 ELSE Len(df))

\* C8: the records produced are those of the rows with text, as if the
\* absent and blank rows were not in the input, and such a row does not end
\* the run: when the loop is over, every row has been passed.
C8_BlankRowsContributeNothing ==
  /\ pc \in {"rows", "index", "return", "returned"} =>
       interactions = RecordsOfRows(NonBlank(RowsPassed), 1)
  /\ pc \in {"index", "return", "returned"} =>
       /\ RowsPassed = df
       /\ Len(SelectSeq(trace, LAMBDA e : e = "row")) = Len(df)

\* a load has completed whose first row was blank and whose later rows gave
\* records
C8_Witness ==
  /\ pc = "returned"
  /\ Len(df) >= 2
  /\ IsBlank(df[1].raw)
  /\ interactions # <<>>

\* what parse_interactions did to the store, in order
StoreOps == SelectSeq(trace, LAMBDA e : e # "row")

====
